---- MODULE Spec2Model ----
(***************************************************************************)
(* Model of pagerank.py: transition_model, sample_pagerank and             *)
(* iterate_pagerank, each called once on a corpus drawn from a bounded set *)
(* of link graphs.                                                         *)
(*                                                                         *)
(* Numbers.  damping_factor is carried as a whole percentage (85 stands    *)
(* for 0.85).  transition_model and the final division of sample_pagerank  *)
(* are short computations and are modelled in exact rational arithmetic    *)
(* (<<numerator, denominator>> in lowest terms).  iterate_pagerank runs a   *)
(* loop whose exact values have no bounded representation, so its floats   *)
(* are modelled in fixed point: a rank r is the integer r * Scale and      *)
(* every division truncates.  IEEE rounding itself is not modelled.        *)
(***************************************************************************)
EXTENDS Integers, Sequences, FiniteSets, TLC

VARIABLES fn, corpus, damping_factor, order, page, n, pc, result,
          cur, i, pageRanks, converged, converged_count, idx, prev, passed

vars == <<fn, corpus, damping_factor, order, page, n, pc, result,
          cur, i, pageRanks, converged, converged_count, idx, prev, passed>>

(* ------------------------------ bounds --------------------------------- *)

\* Largest corpus handed to transition_model and iterate_pagerank.
MaxN == 3
\* Largest corpus handed to sample_pagerank.
MaxSampleNodes == 2
\* Largest sample count n handed to sample_pagerank.
MaxSamples == 4
\* Largest corpus, and largest number of outlinks of a page, in the
\* termination study of iterate_pagerank.
MaxLiveN == 4
MaxLiveOut == 1

(* ----------------------------- constants ------------------------------- *)

\* DAMPING = 0.85, as a percentage.
DAMPING == 85

\* Damping factors in (0, 1) that the calls are made with.
Dampings == {50, DAMPING}

\* Damping factors iterate_pagerank accepts: it validates nothing, so the
\* boundary value 1.0 is taken like any other.
AcceptedDampings == Dampings \cup {100}

\* Resolution of the fixed-point image of a float: 1.0 is Scale.
Scale == 1000 * 1000

\* The literal 0.001 of the convergence test, in fixed point.
Tolerance == Scale \div 1000

Null == <<>>

(* ----------------------------- rationals ------------------------------- *)

Abs(x) == IF x < 0 THEN -x ELSE x

RECURSIVE GCD(_, _)
GCD(a, b) == IF b = 0 THEN a ELSE GCD(b, a % b)

\* a / b in lowest terms, b > 0.
Rat(a, b) == LET g == GCD(Abs(a), b) IN <<a \div g, b \div g>>

RAdd(x, y) == Rat(x[1] * y[2] + y[1] * x[2], x[2] * y[2])
RSub(x, y) == Rat(x[1] * y[2] - y[1] * x[2], x[2] * y[2])
RDivInt(x, k) == Rat(x[1], x[2] * k)
Zero == <<0, 1>>
One == <<1, 1>>

\* sum(f.values()) for a mapping of rationals.
RECURSIVE RSum(_)
RSum(f) ==
    IF DOMAIN f = {} THEN Zero
    ELSE LET k == CHOOSE x \in DOMAIN f : TRUE
         IN RAdd(f[k], RSum([x \in DOMAIN f \ {k} |-> f[x]]))

\* sum(f.values()) for a mapping of integers.
RECURSIVE ISum(_)
ISum(f) ==
    IF DOMAIN f = {} THEN 0
    ELSE LET k == CHOOSE x \in DOMAIN f : TRUE
         IN f[k] + ISum([x \in DOMAIN f \ {k} |-> f[x]])

(* ------------------------------ corpora -------------------------------- *)

\* What crawl returns for k pages: every page maps to a set of other pages
\* of the corpus, never to itself.
Corpora(k) ==
    {c \in [1..k -> SUBSET (1..k)] : \A p \in 1..k : p \notin c[p]}

Keys == DOMAIN corpus
N == Cardinality(Keys)

\* The order in which a dict of k pages is iterated: insertion order, which
\* crawl takes from os.listdir.  Two orders are enough to tell them apart.
Ascending(k) == [j \in 1..k |-> j]
Descending(k) == [j \in 1..k |-> k + 1 - j]
KeyOrders(k) == {Ascending(k), Descending(k)}

(* -------------------------- transition_model --------------------------- *)

\* A variant that gives an unknown page no outlinks instead of raising
\* (corpus.get(page, set())).
transition_model_default(c, pg, d) ==
    LET links == IF pg \in DOMAIN c THEN c[pg] ELSE {}
        links_prob == IF links # {} THEN RDivInt(d, Cardinality(links)) ELSE Zero
        random_prob == RDivInt(RSub(One, d), Cardinality(DOMAIN c))
    IN [raised |-> FALSE,
        value |-> [p \in DOMAIN c |->
                     IF p \in links THEN RAdd(links_prob, random_prob)
                     ELSE random_prob]]

\* A variant that spreads the damping mass over len(corpus), not len(links).
transition_model_div_corpus(c, pg, d) ==
    IF pg \notin DOMAIN c THEN [raised |-> TRUE, value |-> Null]
    ELSE LET links == c[pg]
             links_prob == IF links # {}
                           THEN RDivInt(d, Cardinality(DOMAIN c)) ELSE Zero
             random_prob == RDivInt(RSub(One, d), Cardinality(DOMAIN c))
         IN [raised |-> FALSE,
             value |-> [p \in DOMAIN c |->
                          IF p \in links THEN RAdd(links_prob, random_prob)
                          ELSE random_prob]]

\* transition_model(corpus, page, damping_factor): raises ValueError for a
\* page that is no key, else the mapping built by the loop over the corpus.
transition_model(c, pg, d) ==
    IF pg \notin DOMAIN c THEN [raised |-> TRUE, value |-> Null]
    ELSE LET links == c[pg]
             links_prob == IF links # {}
                           THEN RDivInt(d, Cardinality(links)) ELSE Zero
             random_prob == RDivInt(RSub(One, d), Cardinality(DOMAIN c))
         IN [raised |-> FALSE,
             value |-> [p \in DOMAIN c |->
                          IF p \in links THEN RAdd(links_prob, random_prob)
                          ELSE random_prob]]

\* The damping factor as a rational.
DampingRat == Rat(damping_factor, 100)

\* One call of transition_model.
TransitionCall ==
    /\ fn = "transition_model"
    /\ pc = "call"
    /\ LET r == transition_model(corpus, page, DampingRat)
       IN /\ result' = r
          /\ pc' = IF r.raised THEN "raised" ELSE "returned"
    /\ UNCHANGED <<fn, corpus, damping_factor, order, page, n, cur, i,
                   pageRanks, converged, converged_count, idx, prev, passed>>

(* --------------------------- sample_pagerank --------------------------- *)

\* random.choices(list(tm.keys()), tm.values()): any key of positive weight.
Choices(tm) == {p \in DOMAIN tm : tm[p][1] > 0}

\* A variant that forgets to count the start page.
SampleStartUncounted ==
    /\ fn = "sample_pagerank"
    /\ pc = "call"
    /\ IF Keys = {}
       THEN /\ pc' = "raised"
            /\ pageRanks' = [p \in Keys |-> 0]
            /\ UNCHANGED <<cur, i>>
       ELSE /\ \E start \in Keys :
                 /\ cur' = start
                 /\ pageRanks' = [p \in Keys |-> 0]
            /\ i' = 0
            /\ pc' = "sample_loop"
    /\ UNCHANGED <<fn, corpus, damping_factor, order, page, n, result,
                   converged, converged_count, idx, prev, passed>>

\* Lines 88-93: zero the counters, pick the start page with random.choice
\* (IndexError on an empty corpus) and count it.
SampleStart ==
    /\ fn = "sample_pagerank"
    /\ pc = "call"
    /\ IF Keys = {}
       THEN /\ pc' = "raised"
            /\ pageRanks' = [p \in Keys |-> 0]
            /\ UNCHANGED <<cur, i>>
       ELSE /\ \E start \in Keys :
                 /\ cur' = start
                 /\ pageRanks' = [p \in Keys |-> IF p = start THEN 1 ELSE 0]
            /\ i' = 0
            /\ pc' = "sample_loop"
    /\ UNCHANGED <<fn, corpus, damping_factor, order, page, n, result,
                   converged, converged_count, idx, prev, passed>>

\* Lines 95-99: one of the n - 1 steps of the walk.
SampleStep ==
    /\ fn = "sample_pagerank"
    /\ pc = "sample_loop"
    /\ i < n - 1
    /\ LET tm == transition_model(corpus, cur, DampingRat)
       IN /\ result' = tm
          /\ \E nxt \in Choices(tm.value) :
                /\ cur' = nxt
                /\ pageRanks' = [pageRanks EXCEPT ![nxt] = @ + 1]
    /\ i' = i + 1
    /\ UNCHANGED <<fn, corpus, damping_factor, order, page, n, pc,
                   converged, converged_count, idx, prev, passed>>

\* Lines 102-105: divide every counter by n and return.
SampleReturn ==
    /\ fn = "sample_pagerank"
    /\ pc = "sample_loop"
    /\ i >= n - 1
    /\ pageRanks' = [p \in Keys |-> Rat(pageRanks[p], n)]
    /\ pc' = "returned"
    /\ UNCHANGED <<fn, corpus, damping_factor, order, page, n, result, cur, i,
                   converged, converged_count, idx, prev, passed>>

(* --------------------------- iterate_pagerank -------------------------- *)

\* Lines 132-134: the outlinks of p, a page without any standing for all.
Links(p) == IF corpus[p] = {} THEN Keys ELSE corpus[p]

\* Lines 127-137: the inner loop over corpus.keys(), from position k on.
RECURSIVE Summation(_, _, _)
Summation(ranks, pg, k) ==
    IF k > Len(order) THEN 0
    ELSE LET p == order[k]
         IN (IF pg \in Links(p) THEN ranks[p] \div Cardinality(Links(p)) ELSE 0)
            + Summation(ranks, pg, k + 1)

\* A variant whose inner loop drops the substitution for a page without
\* outlinks.
RECURSIVE SummationNoDangling(_, _, _)
SummationNoDangling(ranks, pg, k) ==
    IF k > Len(order) THEN 0
    ELSE LET p == order[k]
         IN (IF pg \in corpus[p]
             THEN ranks[p] \div Cardinality(corpus[p]) ELSE 0)
            + SummationNoDangling(ranks, pg, k + 1)

NewRankNoDangling(ranks, pg) ==
    ((100 - damping_factor) * Scale) \div (100 * N)
    + (damping_factor * SummationNoDangling(ranks, pg, 1)) \div 100

\* Lines 126-140: the new rank of pg computed from the mapping ranks.
NewRank(ranks, pg) ==
    ((100 - damping_factor) * Scale) \div (100 * N)
    + (damping_factor * Summation(ranks, pg, 1)) \div 100

\* Line 142: newRank <= old + 0.001 and newRank >= old - 0.001.
WithinTolerance(newRank, old) ==
    /\ newRank <= old + Tolerance
    /\ newRank >= old - Tolerance

\* Lines 117-124: every rank 1 / len(corpus), the flags, and the first test
\* of the while loop, which converged = False passes.
IterStart ==
    /\ fn = "iterate_pagerank"
    /\ pc = "call"
    /\ pageRanks' = [p \in Keys |-> Scale \div N]
    /\ converged' = FALSE
    /\ converged_count' = 0
    /\ idx' = 1
    /\ prev' = [p \in Keys |-> Scale \div N]
    /\ passed' = {}
    /\ pc' = "for"
    /\ UNCHANGED <<fn, corpus, damping_factor, order, page, n, result, cur, i>>

\* Lines 125-145: the body of the for loop for the page at position idx.
\* passed records, for the pass under way, the pages whose new rank lay
\* within the tolerance of the rank it replaced.
IterPage ==
    /\ fn = "iterate_pagerank"
    /\ pc = "for"
    /\ idx <= Len(order)
    /\ LET pg == order[idx]
           newRank == NewRank(pageRanks, pg)
       IN /\ converged_count' = IF WithinTolerance(newRank, pageRanks[pg])
                                THEN converged_count + 1
                                ELSE converged_count
          /\ passed' = IF Abs(newRank - pageRanks[pg]) <= Tolerance
                       THEN passed \cup {pg} ELSE passed
          /\ pageRanks' = [pageRanks EXCEPT ![pg] = newRank]
    /\ idx' = idx + 1
    /\ UNCHANGED <<fn, corpus, damping_factor, order, page, n, pc, result,
                   cur, i, converged, prev>>

\* A variant of the end of a pass that takes one off the counter instead of
\* clearing it.
IterPassEndDecrement ==
    /\ fn = "iterate_pagerank"
    /\ pc = "for"
    /\ idx > Len(order)
    /\ IF converged_count = N
       THEN /\ converged' = TRUE
            /\ pc' = "returned"
            /\ UNCHANGED <<converged_count, idx, prev, passed>>
       ELSE /\ converged_count' = IF converged_count > 0
                                  THEN converged_count - 1 ELSE 0
            /\ idx' = 1
            /\ prev' = pageRanks
            /\ passed' = {}
            /\ UNCHANGED <<converged, pc>>
    /\ UNCHANGED <<fn, corpus, damping_factor, order, page, n, result, cur, i,
                   pageRanks>>

\* Lines 147-153 and 124: after the for loop, either set converged, leave
\* the while loop and return pageRanks, or clear the counter and start the
\* next pass.  prev keeps the ranks as they stand when a pass starts.
IterPassEnd ==
    /\ fn = "iterate_pagerank"
    /\ pc = "for"
    /\ idx > Len(order)
    /\ IF converged_count = N
       THEN /\ converged' = TRUE
            /\ pc' = "returned"
            /\ UNCHANGED <<converged_count, idx, prev, passed>>
       ELSE /\ converged_count' = 0
            /\ idx' = 1
            /\ prev' = pageRanks
            /\ passed' = {}
            /\ UNCHANGED <<converged, pc>>
    /\ UNCHANGED <<fn, corpus, damping_factor, order, page, n, result, cur, i,
                   pageRanks>>

(* --------------------------- specifications ---------------------------- *)

\* The variables a call does not use.
Idle ==
    /\ result = Null
    /\ cur = 0
    /\ i = 0
    /\ pageRanks = Null
    /\ converged = FALSE
    /\ converged_count = 0
    /\ idx = 0
    /\ prev = Null
    /\ passed = {}

\* transition_model on every corpus of up to MaxN pages, every page of
\* 1..MaxN+1 (so always one that is no key) and every damping factor.
InitTransition ==
    /\ fn = "transition_model"
    /\ \E k \in 0..MaxN :
          /\ corpus \in Corpora(k)
          /\ order = Ascending(k)
    /\ page \in 1..(MaxN + 1)
    /\ damping_factor \in Dampings
    /\ n = 0
    /\ pc = "call"
    /\ Idle

\* sample_pagerank on every corpus of up to MaxSampleNodes pages, empty
\* one included, with n in 1..MaxSamples.
InitSample ==
    /\ fn = "sample_pagerank"
    /\ \E k \in 0..MaxSampleNodes :
          /\ corpus \in Corpora(k)
          /\ order = Ascending(k)
    /\ page = 0
    /\ damping_factor \in Dampings
    /\ n \in 1..MaxSamples
    /\ pc = "call"
    /\ Idle

\* iterate_pagerank on every corpus of up to MaxN pages, empty one
\* included, in either key order.
InitIterate ==
    /\ fn = "iterate_pagerank"
    /\ \E k \in 0..MaxN :
          /\ corpus \in Corpora(k)
          /\ order \in KeyOrders(k)
    /\ page = 0
    /\ damping_factor \in Dampings
    /\ n = 0
    /\ pc = "call"
    /\ Idle

Init == InitTransition \/ InitSample \/ InitIterate

NextIterate == IterStart \/ IterPage \/ IterPassEnd

Next == TransitionCall \/ SampleStart \/ SampleStep \/ SampleReturn
        \/ IterStart \/ IterPage \/ IterPassEnd

Spec == Init /\ [][Next]_vars

\* iterate_pagerank alone, on corpora of up to MaxLiveN pages with at most
\* MaxLiveOut outlinks each, with every damping factor the function takes.
\* The function is one sequential loop: a step that can be taken is taken.
InitLive ==
    /\ fn = "iterate_pagerank"
    /\ \E k \in 0..MaxLiveN :
          /\ corpus \in {c \in Corpora(k) :
                            \A p \in 1..k : Cardinality(c[p]) <= MaxLiveOut}
          /\ order \in KeyOrders(k)
    /\ page = 0
    /\ damping_factor \in AcceptedDampings
    /\ n = 0
    /\ pc = "call"
    /\ Idle

LiveSpec == InitLive /\ [][NextIterate]_vars /\ WF_vars(NextIterate)

(* ------------------------------- claims -------------------------------- *)

\* C1: for every non-empty corpus, every page that is a key and every
\* damping factor in (0, 1), the values of the mapping transition_model
\* returns sum to 1, a page without outlinks included.
C1_DistributionSumsToOne ==
    (fn = "transition_model" /\ pc = "returned")
        => RSum(result.value) = One

\* C2: for a page whose set of outlinks L is not empty, transition_model
\* returns a mapping over exactly the keys of the corpus, with
\* damping_factor / |L| + (1 - damping_factor) / N for every page of L and
\* (1 - damping_factor) / N for every other page.
C2_NonEmptyLinks ==
    (fn = "transition_model" /\ pc = "returned" /\ corpus[page] # {})
        => /\ DOMAIN result.value = Keys
           /\ \A p \in Keys :
                 LET L == Cardinality(corpus[page])
                     v == result.value[p]
                 IN IF p \in corpus[page]
                    THEN v[1] * (100 * L * N)
                           = v[2] * (damping_factor * N
                                     + (100 - damping_factor) * L)
                    ELSE v[1] * (100 * N) = v[2] * (100 - damping_factor)

\* A call on a page with one outlink in a corpus of three pages: the linked
\* page and a page that is not linked both get their value.
C2_Witness ==
    /\ fn = "transition_model"
    /\ pc = "returned"
    /\ N >= 3
    /\ Cardinality(corpus[page]) = 1
    /\ \E p \in Keys, q \in Keys :
          /\ p \in corpus[page]
          /\ q \notin corpus[page] \cup {page}
          /\ result.value[p] # result.value[q]

\* C3: every pass of iterate_pagerank is synchronous: when a pass is over,
\* the rank of every page is (1 - d)/N + d * (sum over the pages q linking
\* to it of prev(q) / outDegree(q)), prev being the whole rank vector as it
\* stood when the pass began.
C3_SynchronousPass ==
    (fn = "iterate_pagerank" /\ pc = "for" /\ idx > Len(order))
        => \A p \in Keys : pageRanks[p] = NewRank(prev, p)

\* C4: neither sample_pagerank nor iterate_pagerank ever returns a value
\* for a corpus with no pages.
C4_EmptyCorpusFails ==
    (Keys = {} /\ fn \in {"sample_pagerank", "iterate_pagerank"})
        => pc # "returned"

\* C5: iterate_pagerank terminates: whatever the tolerance test does, the
\* call eventually returns.
C5_Terminates == <>(pc = "returned")

C7_SumWithinTolerance ==
    (fn = "iterate_pagerank" /\ pc = "returned" /\ N > 0)
        => Abs(ISum(pageRanks) - Scale) <= Tolerance * N

\* C8: transition_model called with a page that is no key of the corpus
\* fails and returns no distribution.
C8_UnknownPageRaises ==
    (fn = "transition_model" /\ pc # "call" /\ page \notin Keys)
        => /\ pc = "raised"
           /\ result.raised
           /\ result.value = Null

\* A call on a non-empty corpus with a page that is not among its keys.
C8_Witness ==
    /\ fn = "transition_model"
    /\ pc = "raised"
    /\ Keys # {}
    /\ page \notin Keys

\* C9: on a corpus of one page without outlinks, sample_pagerank (any
\* n >= 1) and iterate_pagerank raise nothing and return rank 1.0.
C9_SingleDanglingNode ==
    (N = 1 /\ fn \in {"sample_pagerank", "iterate_pagerank"})
        => /\ pc # "raised"
           /\ pc = "returned"
                 => pageRanks[1] = IF fn = "sample_pagerank" THEN One
                                   ELSE Scale

\* iterate_pagerank has returned on the corpus of one page.
C9_Witness ==
    /\ fn = "iterate_pagerank"
    /\ N = 1
    /\ corpus[1] = {}
    /\ pc = "returned"
    /\ converged

\* C10: iterate_pagerank returns only after a pass in which every page's new
\* rank lay within the tolerance of the rank it replaced; the counter is 0
\* when a pass starts and counts only the pages of the pass under way.
C10_ReturnsOnlyWhenAllStable ==
    fn = "iterate_pagerank"
        => /\ pc = "returned"
                 => /\ passed = Keys
                    /\ \A p \in Keys :
                          Abs(pageRanks[p] - prev[p]) <= Tolerance
           /\ pc = "for" => converged_count = Cardinality(passed)
           /\ (pc = "for" /\ idx = 1) => converged_count = 0

\* A return after at least one pass that failed: the last pass did not
\* start from the initial ranks.
C10_Witness ==
    /\ fn = "iterate_pagerank"
    /\ pc = "returned"
    /\ N >= 2
    /\ \E p \in Keys : prev[p] # Scale \div N

====
